---- MODULE Spec2Model ----
(***************************************************************************)
(* A model of tutorifull's request pipeline (src/tutorifull.py): the       *)
(* alert-signup handler save_alerts with its contact validation and its    *)
(* SQLAlchemy unit of work, the read-only handlers, and the session        *)
(* teardown.  Strings are sequences of one-character strings.              *)
(***************************************************************************)
EXTENDS Integers, Sequences, FiniteSets, TLC

(***************************************************************************)
(* Bounds of the model.                                                    *)
(***************************************************************************)
\* requests the concurrent specification (Spec) lets the server start
MaxRequests == 2
\* requests the sequential validation specification (SpecValidate) starts
MaxSeqRequests == 1

(***************************************************************************)
(* Characters and Python's string helpers.                                 *)
(***************************************************************************)
Digits == {"0", "1", "2", "3", "4", "5", "6", "7", "8", "9"}

Lowers == <<"a", "b", "f", "o", "r">>

Uppers == <<"A", "B", "F", "O", "R">>

Letters == {Lowers[i] : i \in 1..Len(Lowers)} \cup {Uppers[i] : i \in 1..Len(Uppers)}

\* str.upper() on one character
UpperChar(c) ==
    IF \E i \in 1..Len(Lowers) : Lowers[i] = c
    THEN Uppers[CHOOSE i \in 1..Len(Lowers) : Lowers[i] = c]
    ELSE c

\* str.upper()
Upper(s) == [i \in 1..Len(s) |-> UpperChar(s[i])]

\* str.lower() on one character (SQL ILIKE folds case)
LowerChar(c) ==
    IF \E i \in 1..Len(Uppers) : Uppers[i] = c
    THEN Lowers[CHOOSE i \in 1..Len(Uppers) : Uppers[i] = c]
    ELSE c

Lower(s) == [i \in 1..Len(s) |-> LowerChar(s[i])]

\* the regex class \d
IsDigit(c) == c \in Digits

\* the regex class \w: letters, digits and the underscore
IsWord(c) == c \in Digits \cup Letters \cup {"_"}

\* re.sub(r'[^0-9+]', '', s): the digits and '+' of s, in order
RECURSIVE StripPhoneWrong(_)
StripPhoneWrong(s) ==
    IF s = <<>> THEN <<>>
    ELSE IF IsDigit(Head(s)) THEN <<Head(s)>> \o StripPhoneWrong(Tail(s))
         ELSE StripPhoneWrong(Tail(s))

RECURSIVE StripPhone(_)
StripPhone(s) ==
    IF s = <<>> THEN <<>>
    ELSE IF IsDigit(Head(s)) \/ Head(s) = "+" THEN <<Head(s)>> \o StripPhone(Tail(s))
         ELSE StripPhone(Tail(s))

\* Python's '$' matches at the end and also just before one trailing newline:
\* the positions at which a pattern ending in '$' may stop consuming
EndPositions(s) ==
    {Len(s)} \cup (IF Len(s) > 0 /\ s[Len(s)] = "\n" THEN {Len(s) - 1} ELSE {})

\* s[from..to] consists of characters satisfying \d
AllDigits(s, from, to) == \A i \in from..to : IsDigit(s[i])

\* re.match(r'^[^@]+@[^@]+\.[^@]+$', s): one '@' that is not first, and after
\* it a '.' with at least one character on each side.  [^@] also matches a
\* newline, so '$' adds no string here.
EmailPattern(s) ==
    \E at \in 2..Len(s) :
        /\ s[at] = "@"
        /\ \A i \in 1..Len(s) : s[i] = "@" => i = at
        /\ \E dot \in (at + 2)..(Len(s) - 1) : s[dot] = "."

\* re.match(r'^(04|\+?614)\d{8}$', s)
PhonePattern(s) ==
    \E e \in EndPositions(s) :
        \/ e = 10 /\ s[1] = "0" /\ s[2] = "4" /\ AllDigits(s, 3, 10)
        \/ e = 11 /\ s[1] = "6" /\ s[2] = "1" /\ s[3] = "4" /\ AllDigits(s, 4, 11)
        \/ e = 12 /\ s[1] = "+" /\ s[2] = "6" /\ s[3] = "1" /\ s[4] = "4"
                  /\ AllDigits(s, 5, 12)

\* re.match(r'^(\d|\w)+$', s): one or more word characters, then the end
YoPattern(s) ==
    \E e \in EndPositions(s) : e >= 1 /\ \A i \in 1..e : IsWord(s[i])

(***************************************************************************)
(* The request body.  request.get_json() gives None for a request without  *)
(* a JSON body, raises BadRequest for one that does not parse, and else    *)
(* the parsed value: an object (keys is the set of its keys, the fields    *)
(* hold the values of the keys it has) or, here, a list.  Contact fields   *)
(* are strings and classids a list of identifiers.                         *)
(***************************************************************************)
CONTACT_TYPE_EMAIL == "email"

CONTACT_TYPE_SMS == "sms"

CONTACT_TYPE_YO == "yo"

ERR_GENERIC == "Something went wrong"

ERR_EMAIL == "Please enter a valid email address"

ERR_PHONE == "Please enter a valid Australian phone number"

ERR_YO == "Please enter a valid YO username"

ERR_CONTACT == "Please enter some contact info before submitting."

ERR_CLASSES == "Please select at least one class before submitting."

\* post_data.get(key): the value, or None (falsy, as the empty string is)
Get(post_data, key) == IF key \in post_data.keys THEN post_data[key] ELSE <<>>

\* 'not post_data' with None only caught
FalsyNoneOnly(post_data) == post_data.kind = "absent"

\* 'not post_data': None, an empty object or an empty list
Falsy(post_data) ==
    \/ post_data.kind \in {"absent", "empty_list"}
    \/ post_data.kind = "object" /\ post_data.keys = {}

Range(seq) == {seq[i] : i \in 1..Len(seq)}

\* is_valid_yo_name(name): the external lookup
is_valid_yo_name(name, directory) == name \in directory

Rejected(error, calls) ==
    [error |-> error, contact |-> <<>>, contact_type |-> "none", yoCalls |-> calls]

Accepted(contact, contact_type, calls) ==
    [error |-> "", contact |-> contact, contact_type |-> contact_type,
     yoCalls |-> calls]

\* the if/elif chain with the phone number tested before the email
ValidateContactPhoneFirst(post_data, directory) ==
    IF Get(post_data, "phonenumber") # <<>> THEN
        LET contact == StripPhone(post_data.phonenumber) IN
        IF ~PhonePattern(contact) THEN Rejected(ERR_PHONE, <<>>)
        ELSE Accepted(contact, CONTACT_TYPE_SMS, <<>>)
    ELSE IF Get(post_data, "email") # <<>> THEN
        LET contact == post_data.email IN
        IF ~EmailPattern(contact) THEN Rejected(ERR_EMAIL, <<>>)
        ELSE Accepted(contact, CONTACT_TYPE_EMAIL, <<>>)
    ELSE IF Get(post_data, "yoname") # <<>> THEN
        LET contact == Upper(post_data.yoname) IN
        IF ~YoPattern(contact) THEN Rejected(ERR_YO, <<>>)
        ELSE IF ~is_valid_yo_name(contact, directory) THEN Rejected(ERR_YO, <<contact>>)
        ELSE Accepted(contact, CONTACT_TYPE_YO, <<contact>>)
    ELSE Rejected(ERR_CONTACT, <<>>)

\* the if/elif chain of save_alerts: the chosen contact, its type and the
\* names is_valid_yo_name was called with;
\* 'or' evaluates its right side only when the left is false
ValidateContact(post_data, directory) ==
    IF Get(post_data, "email") # <<>> THEN
        LET contact == post_data.email IN
        IF ~EmailPattern(contact) THEN Rejected(ERR_EMAIL, <<>>)
        ELSE Accepted(contact, CONTACT_TYPE_EMAIL, <<>>)
    ELSE IF Get(post_data, "phonenumber") # <<>> THEN
        LET contact == StripPhone(post_data.phonenumber) IN
        IF ~PhonePattern(contact) THEN Rejected(ERR_PHONE, <<>>)
        ELSE Accepted(contact, CONTACT_TYPE_SMS, <<>>)
    ELSE IF Get(post_data, "yoname") # <<>> THEN
        LET contact == Upper(post_data.yoname) IN
        IF ~YoPattern(contact) THEN Rejected(ERR_YO, <<>>)
        ELSE IF ~is_valid_yo_name(contact, directory) THEN Rejected(ERR_YO, <<contact>>)
        ELSE Accepted(contact, CONTACT_TYPE_YO, <<contact>>)
    ELSE Rejected(ERR_CONTACT, <<>>)

(***************************************************************************)
(* The relational store.  Klass and Course rows are loaded by another      *)
(* process; Alert rows carry, besides their three columns, the number of   *)
(* the submission that created them (sub, a history tag of the model).     *)
(***************************************************************************)
\* the Klass rows: klass_id and the owning course
KlassRows ==
    << [klass_id |-> <<"1">>, dept_id |-> <<"A">>, course_id |-> <<"1">>],
       [klass_id |-> <<"2">>, dept_id |-> <<"B">>, course_id |-> <<"2">>] >>

\* the Course rows
CourseRows ==
    << [dept_id |-> <<"A">>, course_id |-> <<"1">>, name |-> <<"F", "o", "o">>],
       [dept_id |-> <<"B">>, course_id |-> <<"2">>, name |-> <<"b", "a", "r">>] >>

\* what the Yo service may have registered (is_valid_yo_name answers from it)
YoDirectories ==
    { {},
      {<<"F", "O", "O", "B", "A", "R">>, <<"F", "O", "O", "_", "B", "A", "R">>,
       <<"F", "0">>, <<"F", "O", "O", "\n">>} }

\* db_session.query(Klass).filter(Klass.klass_id.in_(klass_ids)).all() joined
\* per submitted identifier: one row for every occurrence of a matching id
QueryKlassesPerId(table, klass_ids) ==
    LET RECURSIVE rows(_)
        rows(ids) ==
            IF ids = <<>> THEN <<>>
            ELSE SelectSeq(table, LAMBDA k : k.klass_id = Head(ids)) \o rows(Tail(ids))
    IN rows(klass_ids)

\* db_session.query(Klass).filter(Klass.klass_id.in_(klass_ids)).all(): the
\* rows of the table whose klass_id is among klass_ids, each once
QueryKlasses(table, klass_ids) ==
    SelectSeq(table, LAMBDA k : k.klass_id \in Range(klass_ids))

\* 'if not klasses' written against the submitted list
NoClassesSubmitted(klass_ids, klasses) == klass_ids = <<>>

\* 'if not klasses'
NoClassesSelected(klass_ids, klasses) == klasses = <<>>

\* Alert(klass_id=klass.klass_id, contact_type=contact_type, contact=contact)
Alert(klass, contact_type, contact, sub) ==
    [klass_id |-> klass.klass_id, contact_type |-> contact_type,
     contact |-> contact, sub |-> sub]

(***************************************************************************)
(* Responses.                                                              *)
(***************************************************************************)
Response(kind, error, contact, contact_type, payload) ==
    [kind |-> kind, error |-> error, contact |-> contact,
     contact_type |-> contact_type, payload |-> payload]

NoResponse == Response("none", "", <<>>, "none", <<>>)

\* render_template('error.html', error=...)
ErrorPage(error) == Response("error_page", error, <<>>, "none", <<>>)

\* render_template('alert.html', ..., success_page=True)
SuccessPage(contact, contact_type, klasses) ==
    Response("success_page", "", contact, contact_type, klasses)

\* an exception no handler catches: Flask answers 500
Unhandled == Response("exception", "", <<>>, "none", <<>>)

\* werkzeug's BadRequest, raised by get_json for a body that does not parse
BadRequest == Response("bad_request", "", <<>>, "none", <<>>)

\* a missing-resource (404) response
NotFound == Response("not_found", "", <<>>, "none", <<>>)

NoLocals == [contact |-> <<>>, contact_type |-> "none", klasses |-> <<>>]

\* save_alerts up to its loop: the response it returns early (kind "none" when
\* it goes on to add the alerts), the lookups it made and its local variables
SaveAlertsHead(post_data, directory, table) ==
    LET v == ValidateContact(post_data, directory)
        klass_ids == Get(post_data, "classids")
        klasses == QueryKlasses(table, klass_ids)
        early(r, calls) == [resp |-> r, yoCalls |-> calls, locals |-> NoLocals]
    IN  IF post_data.kind = "unparsable" THEN early(BadRequest, <<>>)
        ELSE IF Falsy(post_data) THEN early(ErrorPage(ERR_GENERIC), <<>>)
        ELSE IF post_data.kind # "object" THEN early(Unhandled, <<>>)
        ELSE IF v.error # "" THEN early(ErrorPage(v.error), v.yoCalls)
        ELSE IF NoClassesSelected(klass_ids, klasses)
             THEN early(ErrorPage(ERR_CLASSES), v.yoCalls)
        ELSE [resp |-> NoResponse, yoCalls |-> v.yoCalls,
              locals |-> [contact |-> v.contact, contact_type |-> v.contact_type,
                          klasses |-> klasses]]

(***************************************************************************)
(* The read-only handlers' helpers.                                        *)
(***************************************************************************)
\* str.split(','): the pieces of s between commas
RECURSIVE Split(_)
Split(s) ==
    IF \A i \in 1..Len(s) : s[i] # ","
    THEN <<s>>
    ELSE LET c == CHOOSE i \in 1..Len(s) :
                      s[i] = "," /\ \A j \in 1..(i - 1) : s[j] # ","
         IN  <<SubSeq(s, 1, c - 1)>> \o Split(SubSeq(s, c + 1, Len(s)))

\* re.match(r'^\d+$', klass_id)
NumericPattern(s) ==
    \E e \in EndPositions(s) : e >= 1 /\ \A i \in 1..e : IsDigit(s[i])

\* show_alert: the Klass rows of the numeric tokens of the classids argument
ShowAlertKlasses(arg, table) ==
    IF arg = <<>> THEN <<>>
    ELSE QueryKlasses(table, SelectSeq(Split(arg), NumericPattern))

\* SQL LIKE: '%' matches any run of characters, '_' any one character
RECURSIVE LikeMatch(_, _)
LikeMatch(pattern, s) ==
    IF pattern = <<>> THEN s = <<>>
    ELSE IF Head(pattern) = "%"
         THEN \E k \in 0..Len(s) : LikeMatch(Tail(pattern), SubSeq(s, k + 1, Len(s)))
    ELSE /\ s # <<>>
         /\ Head(pattern) = "_" \/ Head(pattern) = Head(s)
         /\ LikeMatch(Tail(pattern), Tail(s))

\* column.ilike(pattern): LIKE with the case folded
ILike(s, pattern) == LikeMatch(Lower(pattern), Lower(s))

\* Course.compound_id: the department code followed by the course number
CompoundId(course) == course.dept_id \o course.course_id

\* the size limit of a search result (constants.MAX_SEARCH_RESULTS)
MAX_SEARCH_RESULTS == 1

\* search_courses: the first MAX_SEARCH_RESULTS courses whose name or compound
\* identifier is LIKE %q%
SearchCourses(q, table) ==
    LET search_query == <<"%">> \o q \o <<"%">>
        found == SelectSeq(table, LAMBDA c : \/ ILike(c.name, search_query)
                                              \/ ILike(CompoundId(c), search_query))
    IN  SubSeq(found, 1, IF Len(found) < MAX_SEARCH_RESULTS THEN Len(found)
                         ELSE MAX_SEARCH_RESULTS)

\* util.validate_course_id: a department code of letters followed by a course
\* number of digits, as the pair (dept_id, course_id); <<>> when course_id
\* has no such shape (InvalidCourseIdError)
validate_course_id(course_id) ==
    IF \E k \in 1..(Len(course_id) - 1) :
           /\ \A i \in 1..k : course_id[i] \in Letters
           /\ \A i \in (k + 1)..Len(course_id) : IsDigit(course_id[i])
    THEN LET k == CHOOSE k \in 1..(Len(course_id) - 1) :
                      /\ \A i \in 1..k : course_id[i] \in Letters
                      /\ \A i \in (k + 1)..Len(course_id) : IsDigit(course_id[i])
         IN  <<SubSeq(course_id, 1, k), SubSeq(course_id, k + 1, Len(course_id))>>
    ELSE <<>>

\* query(Course).filter_by(dept_id=..., course_id=...): the matching rows
CoursesByKey(table, dept_id, course_id) ==
    SelectSeq(table, LAMBDA c : c.dept_id = dept_id /\ c.course_id = course_id)

\* course_info: .one() gives the single matching row and raises NoResultFound
\* or MultipleResultsFound otherwise; the handler catches neither
CourseInfo(arg, table) ==
    LET key == validate_course_id(Upper(arg))
        found == CoursesByKey(table, key[1], key[2])
    IN  IF key = <<>> THEN NotFound
        ELSE IF Len(found) # 1 THEN Unhandled
        ELSE Response("json", "", <<>>, "none", found)

(***************************************************************************)
(* The inputs the requests are drawn from.                                 *)
(***************************************************************************)
Obj(keys, email, phonenumber, yoname, classids) ==
    [kind |-> "object", keys |-> keys, email |-> email,
     phonenumber |-> phonenumber, yoname |-> yoname, classids |-> classids]

\* a body that is no object: None, unparsable text, [] or a non-empty list
NonObject(kind) ==
    [kind |-> kind, keys |-> {}, email |-> <<>>, phonenumber |-> <<>>,
     yoname |-> <<>>, classids |-> <<>>]

GoodEmail == <<"a", "@", "b", ".", "c", "o">>

BadEmail == <<"a", "b", ".", "c", "o">>

EmailInputs ==
    { GoodEmail, BadEmail,
      <<"a", "@", "@", "b", ".", "c", "o">>,
      <<"@", "b", ".", "c", "o">>,
      <<"a", "@", "b">>,
      <<"a", "@", ".", "c", "o">>,
      <<"a", "@", "b", ".">>,
      <<"a", "@", "b", ".", "\n">>,
      <<"a", ".", "b", "@", "c">> }

EightDigits == <<"1", "2", "3", "4", "5", "6", "7", "8">>

GoodPhone == <<"0", "4", "1", "2", " ", "3", "4", "5", " ", "6", "7", "8">>

BadPhone == <<"1", "2", "3", "4", "5">>

PhonePrefixes ==
    { <<"0", "4">>, <<"+", "6", "1", "4">>, <<"6", "1", "4">>, <<"0", "5">>,
      <<"+", "0", "4">>, <<"(", "0", "4", ")", " ">>, <<"+", "+", "6", "1", "4">>,
      <<"6", "1", "+", "4">> }

PhoneTails ==
    { EightDigits, SubSeq(EightDigits, 1, 7), EightDigits \o <<"9">>,
      <<"1", "2", "3", "4", "-", "5", "6", "7", "8">>,
      <<"1", "2", "3", "4", "+", "5", "6", "7", "8">>,
      EightDigits \o <<"\n">>,
      <<"1", "2", "3", "4", "a", "b", "c", "d">> }

PhoneInputs ==
    {GoodPhone, BadPhone, <<"+">>, <<" ">>}
        \cup {p \o t : p \in PhonePrefixes, t \in PhoneTails}

GoodYo == <<"F", "O", "O", "B", "A", "R">>

BadYo == <<"f", "o", "o", " ", "b", "a", "r">>

YoInputs ==
    { GoodYo, BadYo,
      <<"f", "o", "o", "b", "a", "r">>,
      <<"f", "o", "o", "_", "b", "a", "r">>,
      <<"f", "o", "o", "-", "b", "a", "r">>,
      <<"f", "0">>,
      <<"b", "a", "r">>,
      <<"f", "o", "o", "\n">>,
      <<"\n">>,
      <<"_">> }

\* classids lists: resolving, repeating, unknown (9) and empty
ClassIdInputs ==
    { <<>>, <<<<"1">>>>, <<<<"1">>, <<"2">>>>, <<<<"9">>>>,
      <<<<"2">>, <<"9">>, <<"2">>>> }

\* with or without the classids key
WithClassIds(keys, email, phonenumber, yoname) ==
    {Obj(keys \cup {"classids"}, email, phonenumber, yoname, ids) :
        ids \in ClassIdInputs} \cup {Obj(keys, email, phonenumber, yoname, <<>>)}

\* the values of one contact field when several are sent: absent (""), an
\* empty string, a valid and an invalid value
FieldChoices(key, good, bad) ==
    { [keys |-> {}, val |-> <<>>], [keys |-> {key}, val |-> <<>>],
      [keys |-> {key}, val |-> good], [keys |-> {key}, val |-> bad] }

SeveralFields ==
    { Obj(e.keys \cup ph.keys \cup y.keys \cup c, e.val, ph.val, y.val,
          IF c = {} THEN <<>> ELSE <<<<"1">>, <<"2">>>>) :
        e \in FieldChoices("email", GoodEmail, BadEmail),
        ph \in FieldChoices("phonenumber", GoodPhone, BadPhone),
        y \in FieldChoices("yoname", GoodYo, BadYo),
        c \in {{}, {"classids"}, {"classids", "other"}, {"other"}} }

\* the bodies of the validation specification
AllBodies ==
    {NonObject(k) : k \in {"absent", "unparsable", "empty_list", "list"}}
        \cup SeveralFields
        \cup UNION {WithClassIds({"email"}, e, <<>>, <<>>) : e \in EmailInputs}
        \cup UNION {WithClassIds({"phonenumber"}, <<>>, ph, <<>>) : ph \in PhoneInputs}
        \cup UNION {WithClassIds({"yoname"}, <<>>, <<>>, y) : y \in YoInputs}

\* the bodies of the concurrent specification: each channel with one and with
\* several classes, and one of each way to fail
SomeBodies ==
    { Obj({"email", "classids"}, GoodEmail, <<>>, <<>>, <<<<"1">>, <<"2">>>>),
      Obj({"phonenumber", "classids"}, <<>>, GoodPhone, <<>>, <<<<"2">>, <<"9">>, <<"2">>>>),
      Obj({"yoname", "classids"}, <<>>, <<>>, GoodYo, <<<<"2">>, <<"1">>>>),
      Obj({"email", "classids"}, GoodEmail, <<>>, <<>>, <<<<"9">>>>),
      Obj({"email"}, GoodEmail, <<>>, <<>>, <<>>),
      Obj({"email", "classids"}, BadEmail, <<>>, <<>>, <<<<"1">>>>),
      Obj({"classids"}, <<>>, <<>>, <<>>, <<<<"1">>>>),
      Obj({}, <<>>, <<>>, <<>>, <<>>),
      NonObject("absent") }

\* query-string arguments of the GET handlers
ClassIdArgs == { <<>>, <<"1", ",", "x", ",", "2">>, <<"9", ",", ",", "2", "\n">> }

SearchArgs == { <<>>, <<"f", "O">>, <<"_", "2">>, <<"z">> }

CourseIdArgs == { <<"a", "1">>, <<"a", "2">>, <<"1", "a">> }

YoNameArgs == { GoodYo, <<"f", "0">> }

(***************************************************************************)
(* The state.                                                              *)
(***************************************************************************)
\* the sessions (request contexts) that may be open at once
Sessions == {"s1", "s2"}

VARIABLES
    klassTable,    \* the committed Klass rows
    courseTable,   \* the committed Course rows
    yoDirectory,   \* the names the Yo service knows
    alerts,        \* the committed Alert rows, in insertion order
    pc,            \* per session: "idle", "adding", "commit" or "teardown"
    req,           \* per session: the request being handled
    locals,        \* per session: save_alerts' contact, contact_type, klasses
    pending,       \* per session: Alert objects added to db_session, not flushed
    txn,           \* per session: rows inserted in its open transaction
    resp,          \* per session: the response of the request
    yoCalls,       \* per session: the names is_valid_yo_name was called with
    subs           \* history: per request started, its route and outcome

vars == <<klassTable, courseTable, yoDirectory, alerts, pc, req, locals, pending,
          txn, resp, yoCalls, subs>>

tables == <<klassTable, courseTable, yoDirectory>>

NoRequest == [route |-> "none", sub |-> 0, post_data |-> NonObject("absent"), arg |-> <<>>]

Init ==
    /\ klassTable = KlassRows
    /\ courseTable = CourseRows
    /\ yoDirectory \in YoDirectories
    /\ alerts = <<>>
    /\ pc = [s \in Sessions |-> "idle"]
    /\ req = [s \in Sessions |-> NoRequest]
    /\ locals = [s \in Sessions |-> NoLocals]
    /\ pending = [s \in Sessions |-> <<>>]
    /\ txn = [s \in Sessions |-> <<>>]
    /\ resp = [s \in Sessions |-> NoResponse]
    /\ yoCalls = [s \in Sessions |-> <<>>]
    /\ subs = <<>>

\* the history entry of a request: kind is "running" until the handler has
\* its response; nklasses the Klass rows a submission resolved to; flushed
\* the rows it had inserted when it failed
Entry(route, kind, nklasses) ==
    [route |-> route, kind |-> kind, nklasses |-> nklasses, flushed |-> 0]

\* a handler that answers in one step
Answer(s, route, post_data, arg, r, calls) ==
    /\ pc[s] = "idle"
    /\ req' = [req EXCEPT ![s] = [route |-> route, sub |-> Len(subs) + 1,
                                  post_data |-> post_data, arg |-> arg]]
    /\ resp' = [resp EXCEPT ![s] = r]
    /\ yoCalls' = [yoCalls EXCEPT ![s] = calls]
    /\ pc' = [pc EXCEPT ![s] = "teardown"]
    /\ subs' = Append(subs, Entry(route, r.kind, 0))
    /\ UNCHANGED <<tables, alerts, locals, pending, txn>>

\* GET /alert
show_alert(s, arg) ==
    Answer(s, "show_alert", NonObject("absent"), arg,
           Response("alert_page", "", <<>>, "none", ShowAlertKlasses(arg, klassTable)),
           <<>>)

\* GET /api/courses
search_courses(s, arg) ==
    Answer(s, "search_courses", NonObject("absent"), arg,
           Response("json", "", <<>>, "none", SearchCourses(arg, courseTable)), <<>>)

\* GET /api/courses/<course_id>
course_info(s, arg) ==
    Answer(s, "course_info", NonObject("absent"), arg, CourseInfo(arg, courseTable), <<>>)

\* GET /api/validateyoname
validate_yo_name(s, arg) ==
    Answer(s, "validate_yo_name", NonObject("absent"), arg,
           Response("json", "", <<>>, "none", <<is_valid_yo_name(arg, yoDirectory)>>),
           <<arg>>)

\* POST /api/alerts, lines 96-134: an early response, or on to the loop
save_alerts(s, post_data) ==
    LET h == SaveAlertsHead(post_data, yoDirectory, klassTable) IN
    /\ pc[s] = "idle"
    /\ req' = [req EXCEPT ![s] = [route |-> "save_alerts", sub |-> Len(subs) + 1,
                                  post_data |-> post_data, arg |-> <<>>]]
    /\ yoCalls' = [yoCalls EXCEPT ![s] = h.yoCalls]
    /\ locals' = [locals EXCEPT ![s] = h.locals]
    /\ resp' = [resp EXCEPT ![s] = h.resp]
    /\ pc' = [pc EXCEPT ![s] = IF h.resp.kind # "none" THEN "teardown"
                               ELSE IF h.locals.klasses = <<>> THEN "commit"
                               ELSE "adding"]
    /\ subs' = Append(subs, Entry("save_alerts",
                                  IF h.resp.kind = "none" THEN "running" ELSE h.resp.kind,
                                  Len(h.locals.klasses)))
    /\ UNCHANGED <<tables, alerts, pending, txn>>

\* the rows of submission sub among rows
RowsOf(rows, sub) == SelectSeq(rows, LAMBDA a : a.sub = sub)

\* the loop body with the commit inside the loop: each row is stored at once
AddAlertAndCommit(s) ==
    /\ pc[s] = "adding"
    /\ LET n == Len(RowsOf(alerts, req[s].sub)) + 1
           alert == Alert(locals[s].klasses[n], locals[s].contact_type,
                          locals[s].contact, req[s].sub)
       IN  /\ n <= Len(locals[s].klasses)
           /\ alerts' = Append(alerts, alert)
           /\ pc' = [pc EXCEPT ![s] =
                        IF n = Len(locals[s].klasses) THEN "commit" ELSE "adding"]
    /\ UNCHANGED <<tables, req, locals, pending, txn, resp, yoCalls, subs>>

\* one turn of the loop, lines 136-139: db_session.add(alert)
AddAlert(s) ==
    /\ pc[s] = "adding"
    /\ Len(pending[s]) < Len(locals[s].klasses)
    /\ LET n == Len(pending[s]) + 1
           alert == Alert(locals[s].klasses[n], locals[s].contact_type,
                          locals[s].contact, req[s].sub)
       IN  /\ pending' = [pending EXCEPT ![s] = Append(@, alert)]
           /\ pc' = [pc EXCEPT ![s] =
                        IF n = Len(locals[s].klasses) THEN "commit" ELSE "adding"]
    /\ UNCHANGED <<tables, alerts, req, locals, txn, resp, yoCalls, subs>>

\* a flush on a connection that commits every statement: the row is stored
FlushAutocommit(s) ==
    /\ pc[s] = "commit"
    /\ pending[s] # <<>>
    /\ alerts' = Append(alerts, Head(pending[s]))
    /\ pending' = [pending EXCEPT ![s] = Tail(@)]
    /\ UNCHANGED <<tables, pc, req, locals, txn, resp, yoCalls, subs>>

\* db_session.commit(), its flush: INSERT the next pending row in the
\* session's transaction, where no other session sees it
Flush(s) ==
    /\ pc[s] = "commit"
    /\ pending[s] # <<>>
    /\ txn' = [txn EXCEPT ![s] = Append(@, Head(pending[s]))]
    /\ pending' = [pending EXCEPT ![s] = Tail(@)]
    /\ UNCHANGED <<tables, alerts, pc, req, locals, resp, yoCalls, subs>>

\* db_session.commit(), its COMMIT, and the rest of the handler, lines 140-147
Commit(s) ==
    /\ pc[s] = "commit"
    /\ pending[s] = <<>>
    /\ alerts' = alerts \o txn[s]
    /\ txn' = [txn EXCEPT ![s] = <<>>]
    /\ resp' = [resp EXCEPT ![s] = SuccessPage(locals[s].contact,
                                                locals[s].contact_type,
                                                locals[s].klasses)]
    /\ subs' = [subs EXCEPT ![req[s].sub].kind = "success_page"]
    /\ pc' = [pc EXCEPT ![s] = "teardown"]
    /\ UNCHANGED <<tables, req, locals, pending, yoCalls>>

\* the store fails while the rows are added, flushed or committed: the
\* exception leaves the handler
PersistenceError(s) ==
    /\ pc[s] \in {"adding", "commit"}
    /\ resp' = [resp EXCEPT ![s] = Unhandled]
    /\ subs' = [subs EXCEPT ![req[s].sub].kind = "exception",
                            ![req[s].sub].flushed = Len(txn[s])]
    /\ pc' = [pc EXCEPT ![s] = "teardown"]
    /\ UNCHANGED <<tables, alerts, req, locals, pending, txn, yoCalls>>

\* a teardown that commits the session instead of removing it
shutdown_session_commit(s) ==
    /\ pc[s] = "teardown"
    /\ alerts' = alerts \o txn[s] \o pending[s]
    /\ pending' = [pending EXCEPT ![s] = <<>>]
    /\ txn' = [txn EXCEPT ![s] = <<>>]
    /\ pc' = [pc EXCEPT ![s] = "idle"]
    /\ req' = [req EXCEPT ![s] = NoRequest]
    /\ locals' = [locals EXCEPT ![s] = NoLocals]
    /\ resp' = [resp EXCEPT ![s] = NoResponse]
    /\ yoCalls' = [yoCalls EXCEPT ![s] = <<>>]
    /\ UNCHANGED <<tables, subs>>

\* teardown_appcontext, lines 44-46: db_session.remove() rolls back what the
\* session has not committed and discards the session
shutdown_session(s) ==
    /\ pc[s] = "teardown"
    /\ pending' = [pending EXCEPT ![s] = <<>>]
    /\ txn' = [txn EXCEPT ![s] = <<>>]
    /\ pc' = [pc EXCEPT ![s] = "idle"]
    /\ req' = [req EXCEPT ![s] = NoRequest]
    /\ locals' = [locals EXCEPT ![s] = NoLocals]
    /\ resp' = [resp EXCEPT ![s] = NoResponse]
    /\ yoCalls' = [yoCalls EXCEPT ![s] = <<>>]
    /\ UNCHANGED <<tables, alerts, subs>>

\* what a session does next, with its POST bodies drawn from bodies and at
\* most max requests started
Step(s, bodies, max) ==
    \/ Len(subs) < max /\ \E post_data \in bodies : save_alerts(s, post_data)
    \/ Len(subs) < max /\ \E arg \in ClassIdArgs : show_alert(s, arg)
    \/ Len(subs) < max /\ \E arg \in SearchArgs : search_courses(s, arg)
    \/ Len(subs) < max /\ \E arg \in CourseIdArgs : course_info(s, arg)
    \/ Len(subs) < max /\ \E arg \in YoNameArgs : validate_yo_name(s, arg)
    \/ AddAlert(s)
    \/ Flush(s)
    \/ Commit(s)
    \/ PersistenceError(s)
    \/ shutdown_session(s)

\* requests of several sessions, their steps interleaved
Next == \E s \in Sessions : Step(s, SomeBodies, MaxRequests)

Spec == Init /\ [][Next]_vars

\* one request at a time, over every body
NextValidate == Step("s1", AllBodies, MaxSeqRequests)

SpecValidate == Init /\ [][NextValidate]_vars

(***************************************************************************)
(* The claims.                                                             *)
(***************************************************************************)
\* session s is handling a POST /api/alerts whose body is a JSON object
Posting(s) ==
    /\ pc[s] # "idle"
    /\ req[s].route = "save_alerts"
    /\ req[s].post_data.kind = "object"

\* the handler of session s has returned or raised
Answered(s) == pc[s] = "teardown"

\* the rows of submission sub that any session holds or the store has
AllRowsOf(s, sub) == RowsOf(alerts, sub) \o RowsOf(txn[s], sub) \o RowsOf(pending[s], sub)

\* the Klass identifiers that exist
KlassIds == {klassTable[i].klass_id : i \in 1..Len(klassTable)}

\* C1: a submission whose persistence failed while its rows were added or
\* committed has none of its Alert rows in the store, during its teardown and
\* ever after.
C1_NoPartialRegistration ==
    \A n \in 1..Len(subs) :
        (subs[n].route = "save_alerts" /\ subs[n].kind = "exception")
            => RowsOf(alerts, n) = <<>>

\* C1's case: a submission of several classes failed after one of its rows
\* was inserted, its request has ended, and another submission's rows are stored
C1_Witness ==
    \E n \in 1..Len(subs) :
        /\ subs[n].kind = "exception"
        /\ subs[n].nklasses >= 2
        /\ subs[n].flushed >= 1
        /\ \A s \in Sessions : pc[s] = "idle"
        /\ RowsOf(alerts, n) = <<>>
        /\ alerts # <<>>

\* C2: at every point the store shows none of a submission's rows (until its
\* commit) or all of them (from its commit on), however requests interleave.
C2_AllOrNothingVisible ==
    \A n \in 1..Len(subs) :
        LET seen == Len(RowsOf(alerts, n)) IN
        /\ seen = 0 \/ seen = subs[n].nklasses
        /\ subs[n].kind = "success_page" => seen = subs[n].nklasses
        /\ subs[n].kind # "success_page" => seen = 0

\* C2's case: one session has inserted a part of its rows while another has
\* committed all of its own
C2_Witness ==
    \E s, t \in Sessions :
        /\ s # t
        /\ pc[s] = "commit" /\ txn[s] # <<>> /\ pending[s] # <<>>
        /\ Posting(t) /\ resp[t].kind = "success_page"
        /\ Len(RowsOf(alerts, req[t].sub)) = 2

\* C3: with a valid contact and classids missing, empty or resolving to no
\* Klass, the answer is the no-classes-selected error and the submission has
\* no Alert row anywhere.
C3_NoClassesSelected ==
    \A s \in Sessions :
        (/\ Posting(s)
         /\ ValidateContact(req[s].post_data, yoDirectory).error = ""
         /\ Range(Get(req[s].post_data, "classids")) \cap KlassIds = {})
            => /\ Answered(s)
               /\ resp[s] = ErrorPage(ERR_CLASSES)
               /\ AllRowsOf(s, req[s].sub) = <<>>

\* C3's case: a valid contact with only unknown class identifiers
C3_Witness ==
    \E s \in Sessions :
        /\ Posting(s) /\ Answered(s)
        /\ req[s].post_data.classids = <<<<"9">>>>
        /\ req[s].post_data.phonenumber = GoodPhone
        /\ resp[s] = ErrorPage(ERR_CLASSES)

\* the step in which session s commits its submission
Commits(s) == resp[s].kind = "none" /\ resp'[s].kind = "success_page"

\* C4: a successful submission appends exactly one Alert row per distinct
\* Klass its classids resolve to, each with that Klass's id and the
\* submission's contact and contact_type; unknown identifiers add nothing,
\* and the rows already stored stay as they are.
C4_Step ==
    /\ Len(alerts') >= Len(alerts)
    /\ SubSeq(alerts', 1, Len(alerts)) = alerts
    /\ \A s \in Sessions :
        Commits(s) =>
            LET new == SubSeq(alerts', Len(alerts) + 1, Len(alerts'))
                ids == Range(Get(req[s].post_data, "classids")) \cap KlassIds
                v == ValidateContact(req[s].post_data, yoDirectory)
            IN  /\ Len(new) = Cardinality(ids)
                /\ {new[i].klass_id : i \in 1..Len(new)} = ids
                /\ \A i \in 1..Len(new) :
                       /\ new[i].contact = v.contact
                       /\ new[i].contact_type = v.contact_type
                /\ resp'[s].kind = "success_page"

\* C4: every step of every behaviour is a C4_Step: one row per distinct
\* resolved Klass on success, earlier rows untouched.
C4_OneRowPerKlass == [][C4_Step]_vars

\* C4's case: classids [2, 9, 2] stored one row, after an earlier submission
\* stored two
C4_Witness ==
    \E s \in Sessions :
        /\ Posting(s) /\ resp[s].kind = "success_page"
        /\ req[s].post_data.classids = <<<<"2">>, <<"9">>, <<"2">>>>
        /\ Len(RowsOf(alerts, req[s].sub)) = 1
        /\ Len(alerts) = 3
        /\ alerts[1].contact = GoodEmail /\ alerts[2].contact = GoodEmail

\* letters and digits only
Alphanumeric(name) ==
    name # <<>> /\ \A i \in 1..Len(name) : name[i] \in Digits \cup Letters

\* session s is handling a submission whose channel is the Yo name
YoChosen(s) ==
    /\ Posting(s)
    /\ Get(req[s].post_data, "email") = <<>>
    /\ Get(req[s].post_data, "phonenumber") = <<>>
    /\ Get(req[s].post_data, "yoname") # <<>>

\* C5: a Yo name that is not alphanumeric once uppercased is rejected with
\* the invalid-Yo-name error and is_valid_yo_name is never called for it; an
\* alphanumeric one is accepted only if the lookup answers true.
C5_RejectedBeforeLookup ==
    \A s \in Sessions :
        YoChosen(s) =>
            LET name == Upper(req[s].post_data.yoname) IN
            /\ ~Alphanumeric(name) =>
                   resp[s] = ErrorPage(ERR_YO) /\ yoCalls[s] = <<>>
            /\ Alphanumeric(name) =>
                   (resp[s].error # ERR_YO => name \in yoDirectory)

\* session s is handling a POST /api/alerts and has its answer
PostAnswered(s) == pc[s] = "teardown" /\ req[s].route = "save_alerts"

\* none of the three contact fields is present in the object
NoContactKey(post_data) ==
    post_data.kind = "object"
        /\ post_data.keys \cap {"email", "phonenumber", "yoname"} = {}

\* C6 as stated: without any contact field, or with the body absent or
\* unparsable, the answer is the missing-contact error.
C6_MissingContactAlways ==
    \A s \in Sessions :
        (/\ PostAnswered(s)
         /\ \/ NoContactKey(req[s].post_data)
            \/ req[s].post_data.kind \in {"absent", "unparsable"})
            => resp[s] = ErrorPage(ERR_CONTACT)

\* C6 amended: a non-empty JSON object with no non-empty contact field gets
\* the missing-contact error; an absent body and an empty JSON object get the
\* generic error 'Something went wrong'; an unparsable body is refused as a
\* bad request by get_json.
C6_MissingContact ==
    \A s \in Sessions :
        PostAnswered(s) =>
            LET post_data == req[s].post_data IN
            /\ (/\ post_data.kind = "object"
                /\ post_data.keys # {}
                /\ Get(post_data, "email") = <<>>
                /\ Get(post_data, "phonenumber") = <<>>
                /\ Get(post_data, "yoname") = <<>>)
                   => resp[s] = ErrorPage(ERR_CONTACT)
            /\ (\/ post_data.kind = "absent"
                \/ post_data.kind = "object" /\ post_data.keys = {})
                   => resp[s] = ErrorPage(ERR_GENERIC)
            /\ post_data.kind = "unparsable" => resp[s] = BadRequest

\* C6's case: the empty JSON object is answered with the generic error
C6_Witness ==
    \E s \in Sessions :
        /\ PostAnswered(s)
        /\ req[s].post_data.kind = "object"
        /\ req[s].post_data.keys = {}
        /\ resp[s] = ErrorPage(ERR_GENERIC)

\* the digits and '+' of raw, in order
DigitsAndPlus(raw) == SelectSeq(raw, LAMBDA c : c \in Digits \cup {"+"})

\* p followed by exactly 8 digits
PrefixAndEightDigits(c, p) ==
    /\ Len(c) = Len(p) + 8
    /\ SubSeq(c, 1, Len(p)) = p
    /\ \A i \in (Len(p) + 1)..Len(c) : c[i] \in Digits

AustralianMobile(c) ==
    \/ PrefixAndEightDigits(c, <<"0", "4">>)
    \/ PrefixAndEightDigits(c, <<"+", "6", "1", "4">>)
    \/ PrefixAndEightDigits(c, <<"6", "1", "4">>)

\* session s is handling a submission whose channel is the phone number
PhoneChosen(s) ==
    /\ Posting(s)
    /\ Get(req[s].post_data, "email") = <<>>
    /\ Get(req[s].post_data, "phonenumber") # <<>>

\* C7: the phone number is accepted exactly when its digits and '+' form 04,
\* +614 or 614 followed by 8 digits, is refused with the phone error
\* otherwise, and those characters are the contact stored and shown.
C7_PhoneNormalised ==
    \A s \in Sessions :
        PhoneChosen(s) =>
            LET stripped == DigitsAndPlus(req[s].post_data.phonenumber)
                rows == AllRowsOf(s, req[s].sub)
            IN  /\ ~AustralianMobile(stripped) => resp[s] = ErrorPage(ERR_PHONE)
                /\ AustralianMobile(stripped) =>
                       /\ resp[s].error \in {"", ERR_CLASSES}
                       /\ resp[s].error = "" => locals[s].contact = stripped
                       /\ resp[s].kind = "success_page" => resp[s].contact = stripped
                       /\ \A i \in 1..Len(rows) :
                              /\ rows[i].contact = stripped
                              /\ rows[i].contact_type = CONTACT_TYPE_SMS

\* C7's case: "0412 345 678" is stored as "0412345678"
C7_Witness ==
    \E s \in Sessions :
        /\ PhoneChosen(s)
        /\ req[s].post_data.phonenumber = GoodPhone
        /\ resp[s].kind = "success_page"
        /\ alerts # <<>>
        /\ alerts[1].contact = <<"0", "4", "1", "2", "3", "4", "5", "6", "7", "8">>

\* C8: a well-formed course identifier that matches no course, or several,
\* is answered with a missing-resource response.
C8_NotFoundSurfaced ==
    \A s \in Sessions :
        (/\ pc[s] = "teardown"
         /\ req[s].route = "course_info"
         /\ validate_course_id(Upper(req[s].arg)) # <<>>
         /\ LET key == validate_course_id(Upper(req[s].arg))
            IN  Len(CoursesByKey(courseTable, key[1], key[2])) # 1)
            => resp[s] = NotFound

\* the stored rows are those of the submissions that succeeded
C9_StoredAreSucceeded ==
    /\ \A i \in 1..Len(alerts) :
           /\ alerts[i].sub \in 1..Len(subs)
           /\ subs[alerts[i].sub].route = "save_alerts"
           /\ subs[alerts[i].sub].kind = "success_page"
    /\ \A n \in 1..Len(subs) :
           subs[n].kind = "success_page" =>
               Len(RowsOf(alerts, n)) = subs[n].nklasses

\* C9: only a POST /api/alerts that succeeds changes the store: the Alert
\* rows change in the step that commits a submission and in no other, the
\* stored rows are always those of the submissions that succeeded, and the
\* Klass and Course rows never change.
C9_Step ==
    /\ klassTable' = klassTable
    /\ courseTable' = courseTable
    /\ C9_StoredAreSucceeded'
    /\ alerts' # alerts =>
           \E s \in Sessions :
               /\ Posting(s)
               /\ Commits(s)
               /\ alerts' = alerts \o RowsOf(alerts', req[s].sub)
    /\ \A s \in Sessions :
           (resp[s].kind = "none" /\ resp'[s].kind \notin {"none", "success_page"})
               => alerts' = alerts

\* C9: every step of every behaviour is a C9_Step: only a succeeding POST
\* /api/alerts changes the stored rows.
C9_OnlySuccessMutates == [][C9_Step]_vars

\* C9's case: a refused submission and a GET have ended, a later submission
\* succeeded, and only the latter's rows are stored
C9_Witness ==
    /\ Len(subs) = 2
    /\ subs[1].route = "save_alerts" /\ subs[1].kind = "error_page"
    /\ subs[2].route = "save_alerts" /\ subs[2].kind = "success_page"
    /\ Len(alerts) = 2
    /\ \A s \in Sessions : pc[s] = "idle"

\* the channel the precedence email, phonenumber, yoname picks
Chosen(post_data) ==
    IF Get(post_data, "email") # <<>> THEN CONTACT_TYPE_EMAIL
    ELSE IF Get(post_data, "phonenumber") # <<>> THEN CONTACT_TYPE_SMS
    ELSE IF Get(post_data, "yoname") # <<>> THEN CONTACT_TYPE_YO
    ELSE "none"

\* C10: of several contact fields the first non-empty one in the order
\* email, phonenumber, yoname decides: its error is the answer when it is
\* invalid, the contact and contact_type come from it alone, and the Yo
\* lookup is called only when yoname is the one chosen.
C10_Precedence ==
    \A s \in Sessions :
        Posting(s) /\ req[s].post_data.keys # {} =>
            LET post_data == req[s].post_data
                chosen == Chosen(post_data)
                ok == resp[s].error \in {"", ERR_CLASSES}
            IN  /\ chosen = CONTACT_TYPE_EMAIL =>
                       /\ ~EmailPattern(post_data.email) => resp[s] = ErrorPage(ERR_EMAIL)
                       /\ EmailPattern(post_data.email) => ok
                       /\ resp[s].error = "" =>
                              locals[s].contact = post_data.email
                /\ chosen = CONTACT_TYPE_SMS =>
                       /\ resp[s].error \in {"", ERR_CLASSES, ERR_PHONE}
                       /\ ~PhonePattern(StripPhone(post_data.phonenumber))
                              => resp[s] = ErrorPage(ERR_PHONE)
                       /\ resp[s].error = "" =>
                              locals[s].contact = StripPhone(post_data.phonenumber)
                /\ chosen = CONTACT_TYPE_YO =>
                       /\ resp[s].error \in {"", ERR_CLASSES, ERR_YO}
                       /\ resp[s].error = "" =>
                              locals[s].contact = Upper(post_data.yoname)
                /\ chosen = "none" => resp[s] = ErrorPage(ERR_CONTACT)
                /\ resp[s].error = "" => locals[s].contact_type = chosen
                /\ yoCalls[s] # <<>> => chosen = CONTACT_TYPE_YO
                /\ LET rows == AllRowsOf(s, req[s].sub) IN
                   \A i \in 1..Len(rows) :
                       /\ rows[i].contact_type = chosen
                       /\ rows[i].contact = locals[s].contact

\* C10's case: an invalid email beside a valid phone number and a valid Yo
\* name is answered with the email error, without a lookup
C10_Witness ==
    \E s \in Sessions :
        /\ Posting(s) /\ Answered(s)
        /\ req[s].post_data.email = BadEmail
        /\ req[s].post_data.phonenumber = GoodPhone
        /\ req[s].post_data.yoname = GoodYo
        /\ resp[s] = ErrorPage(ERR_EMAIL)
        /\ yoCalls[s] = <<>>

====
